---- MODULE Spec2Model ----
(***************************************************************************)
(* The SOLPLUS inverter sensor platform                                    *)
(* (custom_components/solplus_sensor/sensor.py): one SOLPLUSInverter with  *)
(* its poll cache (_values, _last_updated_at), the HTTP request and the    *)
(* HTML parser, and the four InverterSensor entities reading from it.      *)
(*                                                                         *)
(* Time is the wall clock in seconds.  Day boundaries are the multiples of *)
(* Day, so datetime.now().time() is now % Day.  async_update is split at   *)
(* its only await that yields to the event loop (the HTTP request), so the *)
(* updates of the four sensors interleave there as they do under asyncio.  *)
(***************************************************************************)
EXTENDS Integers, Sequences, FiniteSets, TLC

VARIABLES
    now,              \* datetime.now(), in seconds
    ticks,            \* how many times the clock has advanced (bounds the run)
    platform,         \* "setup" until async_setup_platform adds the entities
    last_updated_at,  \* SOLPLUSInverter._last_updated_at
    values,           \* SOLPLUSInverter._values
    native_value,     \* InverterSensor._native_value, per sensor type
    pc,               \* per sensor: "new", "idle", "awaiting" (in request())
    event,            \* the last operation and what it returned to its caller
    zeroed_tonight,   \* history: native_value has zeroed the energy value in
                      \* the 23:00-03:00 window the clock is in
    html,             \* parser harness: the page the device serves in the run
    due               \* scheduler harness: the update period and, per
                      \* sensor, the time left to its next update

vars == <<now, ticks, platform, last_updated_at, values, native_value, pc,
          event, zeroed_tonight, html, due>>

----------------------------------------------------------------------------
(* Bounds of the exploration *)

\* The clock advances at most this many times in a run.
MaxTicks == 4

\* At most this many of the device's four sensors are driven in a run.
MaxSensors == 2

----------------------------------------------------------------------------
(* Constants of the program *)

\* typing_extensions.get_args(Literal[...]) of async_setup_platform
SensorTypes == {"energy", "dc_voltage", "ac_voltage", "power"}

\* self._native_value = None
None == -1

\* datetime.min: earlier than every clock reading
datetime_min == 0

\* timedelta(minutes=1), in seconds
timedelta_minutes_1 == 60

\* timedelta(seconds=20)
timedelta_seconds_20 == 20

\* time(23, 0) and time(3, 0) as seconds since midnight; a day of the clock
start_time == 82800
end_time == 10800
Day == 86400

\* the only status code request() goes on to parse
HTTP_OK == 200

\* the empty dict {} returned beside False
EmptyDict == [k \in {} |-> 0]

\* the initial _values and the initial response of parseHTML
ZeroValues == [k \in SensorTypes |-> 0]

----------------------------------------------------------------------------
(* The parser: re.search, str.replace, int *)

Digits == {"0", "1", "2", "3", "4", "5", "6", "7", "8", "9"}

\* the character class [\d.,] of the four patterns
LiteralChars == Digits \cup {".", ","}

\* The four patterns: the text before the captured literal and the text after.
Patterns ==
    [energy     |-> [marker |-> "<li>Energie Tag:",    unit |-> "kWh"],
     power      |-> [marker |-> "<b>Leistung AC:",     unit |-> "Watt</b>"],
     ac_voltage |-> [marker |-> "<b>Netzspannung:",    unit |-> "Volt</b>"],
     dc_voltage |-> [marker |-> "<b>Gleichspannung:",  unit |-> "Volt</b>"]]

\* A body is a sequence of fragments "marker literal unit".  A fragment matches
\* a pattern when the marker and the unit are the pattern's and the literal is
\* a non-empty run of [\d.,] ("+" needs one character at least).
Matches(frag, pat) ==
    /\ frag.marker = pat.marker
    /\ frag.unit = pat.unit
    /\ Len(frag.lit) >= 1
    /\ \A i \in 1..Len(frag.lit) : frag.lit[i] \in LiteralChars

\* re.search: the position of the leftmost match, 0 for None
re_search(pat, text) ==
    IF \E i \in 1..Len(text) : Matches(text[i], pat)
    THEN CHOOSE i \in 1..Len(text) :
            /\ Matches(text[i], pat)
            /\ \A j \in 1..(i - 1) : ~Matches(text[j], pat)
    ELSE 0

\* str.replace(ch, ""): s without its occurrences of ch
RECURSIVE replace(_, _)
replace(s, ch) ==
    IF s = <<>> THEN <<>>
    ELSE IF Head(s) = ch THEN replace(Tail(s), ch)
         ELSE <<Head(s)>> \o replace(Tail(s), ch)

DigitValue(c) ==
    CASE c = "0" -> 0 [] c = "1" -> 1 [] c = "2" -> 2 [] c = "3" -> 3
      [] c = "4" -> 4 [] c = "5" -> 5 [] c = "6" -> 6 [] c = "7" -> 7
      [] c = "8" -> 8 [] c = "9" -> 9

\* int(s) raises ValueError on the empty string and on a string holding
\* anything but digits
int_raises(s) == s = <<>> \/ \E i \in 1..Len(s) : s[i] \notin Digits

RECURSIVE int(_)
int(s) ==
    IF s = <<>> THEN 0
    ELSE 10 * int(SubSeq(s, 1, Len(s) - 1)) + DigitValue(s[Len(s)])

\* only the thousands separator removed
stripped_of_dots(text, i) == replace(text[i].lit, ".")

\* result.group(1).replace(".", "").replace(",", "")
stripped(text, i) == replace(replace(text[i].lit, "."), ",")

\* One marker of parseHTML: search, return on None, convert, assign.
\* A step is [failed, response].
parse_field(key, text, response) ==
    LET result == re_search(Patterns[key], text)
    IN  IF result = 0 THEN [failed |-> TRUE, response |-> response]
        ELSE IF int_raises(stripped(text, result))
             THEN [failed |-> TRUE, response |-> response]
             ELSE [failed |-> FALSE,
                   response |-> [response EXCEPT ![key] = int(stripped(text, result))]]

\* the order in which parseHTML looks for the markers
ParseOrder == <<"energy", "power", "ac_voltage", "dc_voltage">>

RECURSIVE parse_from(_, _, _)
parse_from(n, text, response) ==
    IF n > Len(ParseOrder) THEN [failed |-> FALSE, response |-> response]
    ELSE LET step == parse_field(ParseOrder[n], text, response)
         IN  IF step.failed THEN step
             ELSE parse_from(n + 1, text, step.response)

\* the markers found so far returned as a result
parse_failure_partial(partial) == [success |-> TRUE, new_values |-> partial]

\* What parseHTML returns on a failure (a missing marker or a ValueError)
parse_failure(partial) == [success |-> FALSE, new_values |-> EmptyDict]

parseHTML(text) ==
    LET r == parse_from(1, text, ZeroValues)
    IN  IF r.failed THEN parse_failure(r.response)
        ELSE [success |-> TRUE, new_values |-> r.response]

----------------------------------------------------------------------------
(* The device's answers *)

Fragment(key, lit) ==
    [marker |-> Patterns[key].marker, lit |-> lit, unit |-> Patterns[key].unit]

\* The page showing the literals of f, a function on some of the sensor types,
\* in the order of ParseOrder.
Page(f) ==
    LET keys == SelectSeq(ParseOrder, LAMBDA k : k \in DOMAIN f)
    IN  [i \in 1..Len(keys) |-> Fragment(keys[i], f[keys[i]])]

\* Two readings of the inverter, different in every field.
ReadingA ==
    [energy |-> <<"1", ".", "2">>, power |-> <<"3", "4">>,
     ac_voltage |-> <<"5", "6">>, dc_voltage |-> <<"7", ",", "8">>]
ReadingB ==
    [energy |-> <<"2", "1">>, power |-> <<"4", ".", "3">>,
     ac_voltage |-> <<"6", "5">>, dc_voltage |-> <<"8", "7">>]

Without(f, key) == [k \in (DOMAIN f) \ {key} |-> f[k]]

\* The pages the device serves: the two readings, a reading with its last
\* marker missing and a reading with a literal made of separators only.
DevicePages ==
    {Page(ReadingA), Page(ReadingB),
     Page(Without(ReadingA, "dc_voltage")),
     Page([ReadingB EXCEPT !["ac_voltage"] = <<".", ",">>])}

\* What session.get can do: raise (timeout, refused connection, ...), answer
\* with another status, or answer 200 with a page.
Responses ==
    {[raised |-> TRUE, status |-> 0, text |-> <<>>]}
        \cup {[raised |-> FALSE, status |-> 500, text |-> <<>>]}
        \cup {[raised |-> FALSE, status |-> HTTP_OK, text |-> p] : p \in DevicePages}

\* return False, {}: nothing escapes request(), and the page was not parsed
request_failure ==
    [success |-> FALSE, new_values |-> EmptyDict, parser_called |-> FALSE,
     raises |-> FALSE]

\* return self.parseHTML(html)
parsed_html(text) ==
    [success |-> parseHTML(text).success,
     new_values |-> parseHTML(text).new_values,
     parser_called |-> TRUE, raises |-> FALSE]

\* the exception of session.get left to the caller
request_uncaught(resp) ==
    IF resp.raised THEN [request_failure EXCEPT !.raises = TRUE]
    ELSE IF resp.status # HTTP_OK THEN request_failure
    ELSE parsed_html(resp.text)

\* request(): try / except Exception around session.get, the status check,
\* then the parser
request(resp) ==
    IF resp.raised THEN request_failure
    ELSE IF resp.status # HTTP_OK THEN request_failure
    ELSE parsed_html(resp.text)

\* which return of request() a response takes
outcome_of(resp) ==
    IF resp.raised THEN "exception"
    ELSE IF resp.status # HTTP_OK THEN "status"
    ELSE IF parseHTML(resp.text).success THEN "ok" ELSE "parse_error"

\* request() and its return taken, per response of the device
Returned == [resp \in Responses |-> request(resp)]
Outcome == [resp \in Responses |-> outcome_of(resp)]

----------------------------------------------------------------------------
(* The poll cache: SOLPLUSInverter.get_values *)

\* a poll already at the end of the minute
is_stale_at_minute(last, t) == last <= t - timedelta_minutes_1

\* self._last_updated_at < (datetime.now() - timedelta(minutes=1))
is_stale(last, t) == last < t - timedelta_minutes_1

\* fresh only before the end of the 20 seconds
is_recent_strict(last, t) == last > t - timedelta_seconds_20

\* self._last_updated_at >= (datetime.now() - timedelta(seconds=20))
is_recent(last, t) == last >= t - timedelta_seconds_20

\* the result of request() stored whether it succeeded or not
store_values_always(vals, r) ==
    IF r.success THEN r.new_values ELSE ZeroValues

\* the two voltages stored under each other's key
store_values_swapped(vals, r) ==
    IF r.success
    THEN [vals EXCEPT !["energy"] = r.new_values["energy"],
                      !["dc_voltage"] = r.new_values["ac_voltage"],
                      !["ac_voltage"] = r.new_values["dc_voltage"],
                      !["power"] = r.new_values["power"]]
    ELSE vals

\* the four assignments cut after the second
store_values_torn(vals, r) ==
    IF r.success
    THEN [vals EXCEPT !["energy"] = r.new_values["energy"],
                      !["dc_voltage"] = r.new_values["dc_voltage"]]
    ELSE vals

\* self._values = new_values, whatever success says
store_values_raw(vals, r) == r.new_values

\* if success: the four assignments to self._values
store_values(vals, r) ==
    IF r.success
    THEN [vals EXCEPT !["energy"] = r.new_values["energy"],
                      !["dc_voltage"] = r.new_values["dc_voltage"],
                      !["ac_voltage"] = r.new_values["ac_voltage"],
                      !["power"] = r.new_values["power"]]
    ELSE vals

\* if success: self._last_updated_at = datetime.now()
stamp(last, r, t) == IF r.success THEN t ELSE last

----------------------------------------------------------------------------
(* The sensors: InverterSensor *)

\* the energy taken from the cache whether fresh or not
resolve_energy_always(sensor, old, is_fresh_value, measurement) ==
    measurement[sensor]

\* every sensor keeping its value when the cache is not fresh
resolve_fresh_only(sensor, old, is_fresh_value, measurement) ==
    IF is_fresh_value THEN measurement[sensor] ELSE old

\* the match statement of async_update
resolve(sensor, old, is_fresh_value, measurement) ==
    CASE sensor = "dc_voltage" -> measurement["dc_voltage"]
      [] sensor = "ac_voltage" -> measurement["ac_voltage"]
      [] sensor = "power" -> measurement["power"]
      [] sensor = "energy" ->
            IF is_fresh_value THEN measurement["energy"] ELSE old

\* the end of the range left out
is_time_in_range_open(start, end, time_to_check) ==
    IF start <= end
    THEN start <= time_to_check /\ time_to_check < end
    ELSE start <= time_to_check \/ time_to_check < end

is_time_in_range(start, end, time_to_check) ==
    IF start <= end
    THEN start <= time_to_check /\ time_to_check <= end
    ELSE start <= time_to_check \/ time_to_check <= end

\* datetime.now().time()
current_time(t) == t % Day

\* whether the property native_value assigns 0: the energy sensor, read
\* between 23:00 and 03:00
zeroes(sensor, t) ==
    sensor = "energy" /\ is_time_in_range(start_time, end_time, current_time(t))

\* what the property native_value leaves in _native_value (and returns)
read_value(sensor, old, t) == IF zeroes(sensor, t) THEN 0 ELSE old

\* the stored value never taken over
restored_never(old, last_sensor_data) == old

\* async_added_to_hass: the restored value, if the store holds one
restored(old, last_sensor_data) ==
    IF last_sensor_data # None THEN last_sensor_data ELSE old

----------------------------------------------------------------------------
(* The state machine *)

\* The clock advances in steps of the freshness window; the runs start shortly
\* before 23:00 and shortly before 03:00.
Steps == {timedelta_seconds_20}
StartTimes == {start_time - 40, Day + end_time - 40}

\* what the restore store may hold for a sensor
PersistedData == {None, 500}

Added == {k \in SensorTypes : pc[k] # "new"}

\* An operation and what it returned: op, the sensor, whether get_values
\* polled, (is_fresh, measurement) as returned by get_values, which return of
\* request() was taken and its new_values, and the value a read returned.
Event(op, sensor, polled, fresh, measurement, outcome, new_values, value) ==
    [op |-> op, sensor |-> sensor, polled |-> polled, is_fresh |-> fresh,
     measurement |-> measurement, outcome |-> outcome,
     new_values |-> new_values, value |-> value,
     parser_called |-> FALSE, raises |-> FALSE]

\* measurement[<sensor>] of a key the mapping lacks: KeyError
key_error(sensor, is_fresh_value, measurement) ==
    /\ sensor # "energy" \/ is_fresh_value
    /\ sensor \notin DOMAIN measurement

\* the probe always taken as passed
assert_can_connect_always(r) == TRUE

\* assert_can_connect: success, _ = await self.request(); return success
assert_can_connect(r) == r.success

Quiet(op, sensor) ==
    Event(op, sensor, FALSE, FALSE, EmptyDict, "none", EmptyDict, None)

\* the host calls the updates whenever it likes
Unscheduled == [period |-> 0, left |-> EmptyDict]

Init ==
    /\ now \in StartTimes
    /\ ticks = 0
    /\ platform = "setup"
    /\ last_updated_at = datetime_min
    /\ values = ZeroValues
    /\ native_value = [k \in SensorTypes |-> None]
    /\ pc = [k \in SensorTypes |-> "new"]
    /\ event = Quiet("init", "none")
    /\ zeroed_tonight = FALSE
    /\ html = <<>>
    /\ due = Unscheduled

\* async_setup_platform: the inverter is built and probed with one request;
\* PlatformNotReady is raised when the probe fails (the host retries the
\* setup), the four sensors are added when it succeeds.
async_setup_platform(resp) ==
    /\ platform = "setup"
    /\ platform' = IF assert_can_connect(Returned[resp])
                    THEN "ready" ELSE "setup"
    /\ event' = [Event("setup", "none", TRUE, Returned[resp].success,
                       EmptyDict, Outcome[resp], EmptyDict, None)
                    EXCEPT !.parser_called = Returned[resp].parser_called,
                           !.raises = ~assert_can_connect(Returned[resp])]
    /\ UNCHANGED <<now, ticks, last_updated_at, values, native_value, pc,
                   zeroed_tonight, html, due>>

async_added_to_hass(sensor, last_sensor_data) ==
    /\ platform = "ready"
    /\ pc[sensor] = "new"
    /\ Cardinality(Added) < MaxSensors
    /\ native_value' =
          [native_value EXCEPT ![sensor] = restored(@, last_sensor_data)]
    /\ pc' = [pc EXCEPT ![sensor] = "idle"]
    /\ event' = Event("added", sensor, FALSE, FALSE, EmptyDict, "none",
                      EmptyDict, last_sensor_data)
    /\ UNCHANGED <<now, ticks, platform, last_updated_at, values,
                   zeroed_tonight, html, due>>

\* the property native_value, read by the host when it writes the state
read_native_value(sensor) ==
    /\ pc[sensor] = "idle"
    /\ native_value' =
          [native_value EXCEPT ![sensor] = read_value(sensor, @, now)]
    /\ event' = Event("read", sensor, FALSE, FALSE, EmptyDict, "none",
                      EmptyDict, native_value'[sensor])
    /\ zeroed_tonight' = (zeroed_tonight \/ zeroes(sensor, now))
    /\ UNCHANGED <<now, ticks, platform, last_updated_at, values, pc, html,
                   due>>

\* async_update up to the await of request(): either get_values finds the
\* cache stale and sends the request, or it returns the cache and the update
\* runs to its end.
async_update(sensor) ==
    /\ pc[sensor] = "idle"
    /\ IF is_stale(last_updated_at, now)
       THEN /\ pc' = [pc EXCEPT ![sensor] = "awaiting"]
            /\ event' = Event("request", sensor, TRUE, FALSE, EmptyDict,
                              "none", EmptyDict, None)
            /\ UNCHANGED native_value
       ELSE /\ native_value' =
                  IF key_error(sensor, is_recent(last_updated_at, now), values)
                  THEN native_value
                  ELSE [native_value EXCEPT ![sensor] =
                          resolve(sensor, @, is_recent(last_updated_at, now),
                                  values)]
            /\ event' = [Event("update", sensor, FALSE,
                               is_recent(last_updated_at, now), values,
                               "none", EmptyDict, None)
                            EXCEPT !.raises =
                               key_error(sensor,
                                         is_recent(last_updated_at, now),
                                         values)]
            /\ UNCHANGED pc
    /\ UNCHANGED <<now, ticks, platform, last_updated_at, values,
                   zeroed_tonight, html, due>>

\* async_update from the await on: request() returns, get_values stores a
\* success and returns (success, self._values), the sensor takes its value.
resume(sensor, r, outcome) ==
    /\ pc[sensor] = "awaiting"
    /\ values' = store_values(values, r)
    /\ last_updated_at' = stamp(last_updated_at, r, now)
    /\ native_value' =
          IF r.raises \/ key_error(sensor, r.success, values')
          THEN native_value
          ELSE [native_value EXCEPT
                  ![sensor] = resolve(sensor, @, r.success, values')]
    /\ event' = [Event("update", sensor, TRUE, r.success, values',
                       outcome, r.new_values, None)
                    EXCEPT !.parser_called = r.parser_called,
                           !.raises = r.raises
                               \/ key_error(sensor, r.success, values')]
    /\ pc' = [pc EXCEPT ![sensor] = "idle"]
    /\ UNCHANGED <<now, ticks, platform, zeroed_tonight, html, due>>

async_update_resume(sensor, resp) ==
    resume(sensor, Returned[resp], Outcome[resp])

Tick(d) ==
    /\ ticks < MaxTicks
    /\ now' = now + d
    /\ ticks' = ticks + 1
    /\ event' = Quiet("tick", "none")
    /\ zeroed_tonight' = (zeroed_tonight /\ zeroes("energy", now'))
    /\ UNCHANGED <<platform, last_updated_at, values, native_value, pc, html,
                   due>>

Next ==
    \/ \E resp \in Responses : async_setup_platform(resp)
    \/ \E sensor \in SensorTypes, data \in PersistedData :
          async_added_to_hass(sensor, data)
    \/ \E sensor \in SensorTypes : read_native_value(sensor)
    \/ \E sensor \in SensorTypes : async_update(sensor)
    \/ \E sensor \in SensorTypes, resp \in Responses :
          async_update_resume(sensor, resp)
    \/ \E d \in Steps : Tick(d)

Spec == Init /\ [][Next]_vars

----------------------------------------------------------------------------
(* The parser on its own: a run in which the device serves one page, drawn   *)
(* from a bounded set, to the energy sensor's updates.                       *)

\* the literals are at most this long
MaxLitLen == 2

LitAlphabet == {"1", "2", ".", ","}

RECURSIVE LiteralsOfLen(_)
LiteralsOfLen(n) ==
    IF n = 0 THEN {<<>>}
    ELSE {<<c>> \o l : c \in LitAlphabet, l \in LiteralsOfLen(n - 1)}

Literals == UNION {LiteralsOfLen(n) : n \in 1..MaxLitLen}

\* ReadingA with the literal of one marker replaced and up to one marker removed
Shown ==
    {[k \in SensorTypes \ drop |-> IF k = vary THEN l ELSE ReadingA[k]] :
        vary \in SensorTypes, l \in Literals,
        drop \in {d \in SUBSET SensorTypes : Cardinality(d) <= 1}}

Reverse(q) == [i \in 1..Len(q) |-> q[Len(q) + 1 - i]]

\* text that holds a marker but is no match: another unit follows the number
Decoy == [marker |-> Patterns["energy"].marker, lit |-> <<"2">>, unit |-> "Wh"]

\* the pages of the parser runs: in the order of the patterns, in the reverse
\* order, and behind a decoy
HtmlInputs ==
    {Page(f) : f \in Shown}
        \cup {Reverse(Page(f)) : f \in Shown}
        \cup {<<Decoy>> \o Page(f) : f \in Shown}

PageResponse(text) == [raised |-> FALSE, status |-> HTTP_OK, text |-> text]

\* the state after the setup has succeeded and the energy sensor was added
\* with nothing to restore
ParseInit ==
    /\ now \in {Day + Day \div 2}
    /\ ticks = 0
    /\ platform = "ready"
    /\ last_updated_at = datetime_min
    /\ values = ZeroValues
    /\ native_value = [k \in SensorTypes |-> None]
    /\ pc = [k \in SensorTypes |-> IF k = "energy" THEN "idle" ELSE "new"]
    /\ event = Quiet("added", "energy")
    /\ zeroed_tonight = FALSE
    /\ html \in HtmlInputs
    /\ due = Unscheduled

\* the device answers 200 with the page of the run
async_update_resume_page(sensor) ==
    resume(sensor, request(PageResponse(html)), outcome_of(PageResponse(html)))

ParseNext ==
    \/ async_update("energy")
    \/ async_update_resume_page("energy")

ParseSpec == ParseInit /\ [][ParseNext]_vars

----------------------------------------------------------------------------
(* Properties of the poll cache (Spec) *)

\* The steps in which get_values returns: after a poll, and from the cache.
PollReturns == event'.op = "update" /\ event'.polled
CacheReturns == event'.op = "update" /\ ~event'.polled
\* The steps in which async_update calls get_values.
GetValuesCalled == event'.op = "request" \/ CacheReturns

Elapsed == now - last_updated_at

\* C1: a failed poll (an exception of the transport, a status other than 200,
\* a page that does not parse) returns (False, the stored values) and leaves
\* _values and _last_updated_at as they were.
FailedPollKeepsState ==
    [][(PollReturns /\ event'.outcome \in {"exception", "status", "parse_error"})
          => /\ ~event'.is_fresh
             /\ event'.measurement = values
             /\ values' = values
             /\ last_updated_at' = last_updated_at]_vars

\* C1 witness: a poll has failed on a device that had been polled with success.
FailedPollAfterSuccess ==
    /\ event.op = "update" /\ event.polled
    /\ event.outcome = "exception"
    /\ ~event.is_fresh
    /\ values # ZeroValues
    /\ last_updated_at # datetime_min

\* C2 as stated: get_values sends a request exactly when 60 s or more have
\* passed since the last success.
PollsFromSixtySeconds ==
    [][GetValuesCalled => ((event'.op = "request") <=> (Elapsed >= 60))]_vars

\* C2 amended: get_values sends a request (one: the calling sensor, and no
\* other, enters request()) exactly when more than 60 s have passed since the
\* last success; at 60 s exactly it serves the cache.
PollsAfterSixtySeconds ==
    [][GetValuesCalled =>
          /\ (event'.op = "request") <=> (Elapsed > 60)
          /\ (event'.op = "request") =>
                /\ pc[event'.sensor] = "idle"
                /\ pc' = [pc EXCEPT ![event'.sensor] = "awaiting"]
          /\ CacheReturns => pc' = pc]_vars

\* C2 witness: a call exactly 60 s after a success was served from the cache.
CacheServedAtSixtySeconds ==
    /\ event.op = "update" /\ ~event.polled
    /\ now - last_updated_at = 60

\* C3 as stated: served from the cache, the values come back unchanged with
\* is_fresh = (elapsed < 20 s).
CacheFreshBeforeTwentySeconds ==
    [][CacheReturns =>
          /\ event'.is_fresh = (Elapsed < 20)
          /\ event'.measurement = values
          /\ values' = values]_vars

\* C3 amended: served from the cache (up to and including 60 s after the
\* success), the values come back unchanged with is_fresh = (elapsed <= 20 s).
CacheFreshUpToTwentySeconds ==
    [][CacheReturns =>
          /\ Elapsed <= 60
          /\ event'.is_fresh = (Elapsed <= 20)
          /\ event'.measurement = values
          /\ values' = values
          /\ last_updated_at' = last_updated_at]_vars

\* C3 witness: a call exactly 20 s after a success came back fresh.
CacheFreshAtTwentySeconds ==
    /\ event.op = "update" /\ ~event.polled
    /\ now - last_updated_at = 20
    /\ event.is_fresh
    /\ event.measurement = values
    /\ values # ZeroValues

\* the numbers the two readings of the device show
ReadingValues ==
    {[energy |-> 12, power |-> 34, ac_voltage |-> 56, dc_voltage |-> 78],
     [energy |-> 21, power |-> 43, ac_voltage |-> 65, dc_voltage |-> 87]}

\* C4: a poll that succeeds overwrites the four stored measurements with the
\* parsed values, sets _last_updated_at to the current time and returns
\* (True, the new values).
SuccessfulPollStores ==
    [][(PollReturns /\ event'.outcome = "ok")
          => /\ \A k \in SensorTypes : values'[k] = event'.new_values[k]
             /\ values' \in ReadingValues
             /\ last_updated_at' = now
             /\ event'.is_fresh
             /\ event'.measurement = values']_vars

\* C4 witness: a poll has succeeded and replaced the values of an earlier
\* reading (or the zeros) with the ones just parsed.
SuccessfulPollStored ==
    /\ event.op = "update" /\ event.polled /\ event.outcome = "ok"
    /\ event.is_fresh
    /\ values =
          [energy |-> 21, power |-> 43, ac_voltage |-> 65, dc_voltage |-> 87]
    /\ last_updated_at = now

\* C5: an update of the energy sensor leaves its value alone when get_values
\* returned is_fresh = False and sets it to the energy of the returned values
\* when it returned True.
EnergyOnlyFromFresh ==
    [][(event'.op = "update" /\ event'.sensor = "energy")
          => native_value'["energy"] =
                IF event'.is_fresh THEN event'.measurement["energy"]
                ELSE native_value["energy"]]_vars

\* C5 witness: the energy sensor has kept a value that is not the cache's
\* through an update that was not fresh.
EnergyKeptThroughStaleUpdate ==
    /\ event.op = "update" /\ event.sensor = "energy"
    /\ ~event.is_fresh
    /\ native_value["energy"] \notin {None, 0}
    /\ native_value["energy"] # values["energy"]

----------------------------------------------------------------------------
(* Properties of the sensors (Spec) *)

\* local time between 23:00 and 03:00, both included
InDeadBand(t) == (t % 86400) >= 23 * 3600 \/ (t % 86400) <= 3 * 3600

EnergyRead == event'.op = "read" /\ event'.sensor = "energy"

\* C6: the energy value is zeroed once per night: after a read has zeroed it,
\* a later read of the same night leaves the value as it finds it (a value
\* written by a fresh poll after the reset is not zeroed again).
EnergyZeroedOncePerNight ==
    [][(EnergyRead /\ zeroed_tonight)
          => native_value'["energy"] = native_value["energy"]]_vars

\* C7: every update of the power, ac_voltage and dc_voltage sensors sets the
\* sensor's value to its entry of the values get_values returned, fresh or not.
MeasurementsAlwaysOverwritten ==
    [][(event'.op = "update" /\ event'.sensor # "energy")
          => /\ native_value'[event'.sensor] = event'.measurement[event'.sensor]
             /\ event'.measurement = values']_vars

\* C7 witness: after a failed poll of a device never polled with success the
\* power sensor shows the default 0.
PowerShowsDefaultAfterFailure ==
    /\ event.op = "update" /\ event.sensor = "power"
    /\ event.polled /\ ~event.is_fresh
    /\ last_updated_at = datetime_min
    /\ native_value["power"] = 0

\* the first read of the energy sensor after its value was restored
FirstEnergyReadAfterRestore ==
    /\ EnergyRead
    /\ event.op = "added" /\ event.sensor = "energy" /\ event.value # None

\* C8 as stated: with a value in the restore store, the first read of the
\* energy sensor returns that value, at whatever time of day.
RestoredEnergyRead ==
    [][FirstEnergyReadAfterRestore => event'.value = event.value]_vars

\* C8 amended: async_added_to_hass takes over the value of the restore store,
\* and the first read of the energy sensor returns it when the clock is
\* outside 23:00-03:00; inside, the read returns 0 and stores 0.
RestoredEnergyReadByDay ==
    [][/\ (event'.op = "added" /\ event'.value # None)
            => native_value'[event'.sensor] = event'.value
       /\ FirstEnergyReadAfterRestore
            => /\ event'.value = IF InDeadBand(now) THEN 0 ELSE event.value
               /\ native_value'["energy"] = event'.value]_vars

\* C8 witness: the restored 500 was read back before any poll had succeeded.
RestoredEnergyWasRead ==
    /\ event.op = "read" /\ event.sensor = "energy"
    /\ event.value = 500
    /\ ~InDeadBand(now)
    /\ last_updated_at = datetime_min

----------------------------------------------------------------------------
(* Properties of the parser (ParseSpec) *)

\* the literal a pattern captures: that of the first text with the pattern's
\* marker and unit around a number; empty when there is none
Captured(text, key) ==
    LET at == {i \in 1..Len(text) :
                  /\ text[i].marker = Patterns[key].marker
                  /\ text[i].unit = Patterns[key].unit
                  /\ text[i].lit # <<>>}
    IN  IF at = {} THEN <<>>
        ELSE text[CHOOSE i \in at : \A j \in at : i <= j].lit

HasDigit(lit) ==
    \E i \in 1..Len(lit) :
        lit[i] \in {"0", "1", "2", "3", "4", "5", "6", "7", "8", "9"}

\* the integer the digits of a literal form, read from the left
RECURSIVE Number(_, _)
Number(lit, acc) ==
    IF lit = <<>> THEN acc
    ELSE IF Head(lit) \in {".", ","} THEN Number(Tail(lit), acc)
    ELSE Number(Tail(lit),
                10 * acc + (CHOOSE n \in 0..9 :
                    <<"0", "1", "2", "3", "4", "5", "6", "7", "8", "9">>[n + 1]
                        = Head(lit)))

\* a marker is missing, or its literal holds no digit
Defective(text) == \E key \in SensorTypes : ~HasDigit(Captured(text, key))

PageParsed == event.op = "update" /\ event.polled

\* C9: when a marker is missing from the page or a captured literal holds no
\* digit, the parse fails with no values at all, and nothing of the page
\* reaches _values, _last_updated_at or the sensor.
ParseAllOrNothing ==
    Defective(html) =>
        /\ values = ZeroValues
        /\ last_updated_at = datetime_min
        /\ native_value["energy"] = None
        /\ event.op = "update" =>
              /\ event.polled /\ ~event.is_fresh
              /\ event.outcome = "parse_error"
              /\ event.new_values = EmptyDict
              /\ event.measurement = ZeroValues

\* C9 witness: a page was parsed whose energy literal is a number other than
\* 0 and in which a later marker is missing or holds separators only.
ParseFailedAfterEnergyFound ==
    /\ PageParsed
    /\ Number(Captured(html, "energy"), 0) > 0
    /\ \E key \in {"power", "ac_voltage", "dc_voltage"} :
          ~HasDigit(Captured(html, key))
    /\ \E key \in {"power", "ac_voltage", "dc_voltage"} :
          Captured(html, key) \in {<<".">>, <<",">>}

\* C10: a page with the four markers, each with a literal holding a digit,
\* parses, and each value is the integer formed by the digits of the literal
\* captured for its own kind.
ParseStripsSeparators ==
    (PageParsed /\ ~Defective(html)) =>
        /\ event.is_fresh /\ event.outcome = "ok"
        /\ \A key \in SensorTypes :
              event.new_values[key] = Number(Captured(html, key), 0)
        /\ values = event.new_values

\* C10 witness: the literals 1.2 and 21 were parsed to 12 and 21.
ParsedWithSeparators ==
    /\ PageParsed
    /\ Captured(html, "energy") = <<"1", ".", "2">>
    /\ Captured(html, "power") = <<"2", "1">>
    /\ values["energy"] = 12 /\ values["power"] = 21

----------------------------------------------------------------------------
(* Failures, the unreachable device and retries *)

Failures == {"exception", "status", "parse_error"}

\* C11: whatever makes a poll fail (an exception of the transport, a status
\* other than 200, a page that does not parse), no exception leaves
\* get_values, which returns (False, the stored values); the parser is not
\* called after an exception or a status other than 200; the energy sensor
\* keeps its value and a measurement sensor shows the stored value, 0 while the
\* stored values are the defaults.
FailuresContained ==
    [][(PollReturns /\ event'.outcome \in Failures)
          => /\ ~event'.raises
             /\ ~event'.is_fresh
             /\ event'.measurement = values
             /\ event'.outcome \in {"exception", "status"}
                   => ~event'.parser_called
             /\ event'.sensor = "energy"
                   => native_value'["energy"] = native_value["energy"]
             /\ event'.sensor # "energy"
                   => /\ native_value'[event'.sensor] = values[event'.sensor]
                      /\ values = ZeroValues
                            => native_value'[event'.sensor] = 0]_vars

\* a restored energy value kept through a poll answered with another status
EnergyKeptThroughBadStatus ==
    /\ event.op = "update" /\ event.polled /\ event.sensor = "energy"
    /\ event.outcome = "status"
    /\ ~event.parser_called /\ ~event.raises
    /\ native_value["energy"] = 500

\* C12: the stored measurements, and the mapping get_values returns, always
\* hold the four keys with non-negative integers; they are all 0 until the
\* first successful poll.
MeasurementSetInvariant ==
    /\ DOMAIN values = SensorTypes
    /\ \A k \in SensorTypes : values[k] \in Nat
    /\ event.op = "update"
          => /\ DOMAIN event.measurement = SensorTypes
             /\ \A k \in SensorTypes : event.measurement[k] \in Nat
    /\ last_updated_at = datetime_min => values = ZeroValues

\* the measurements of an earlier poll returned whole by a poll whose page
\* did not parse
MeasurementsReturnedAfterParseError ==
    /\ event.op = "update" /\ event.polled
    /\ event.outcome = "parse_error"
    /\ event.new_values = EmptyDict
    /\ event.measurement \in ReadingValues

\* C13 as stated: a device that does not answer raises nothing in any
\* operation, the setup included, and its sensors exist.
NothingFatalWhenUnreachable ==
    [][event'.outcome = "exception"
          => ~event'.raises /\ platform' = "ready"]_vars

\* C13: a device that fails the probe of the setup makes async_setup_platform
\* raise PlatformNotReady and no sensor exists until a setup succeeds; once the
\* sensors are added, no update and no read raises, and an update the device
\* does not answer leaves the stored values and shows a stale or zero reading.
UnreachableFatalOnlyAtSetup ==
    [][/\ event'.op = "setup"
          => /\ event'.raises <=> event'.outcome # "ok"
             /\ platform' = "ready" <=> event'.outcome = "ok"
       /\ platform' = "setup" => \A k \in SensorTypes : pc'[k] = "new"
       /\ event'.op \in {"request", "update", "read"} => ~event'.raises
       /\ (PollReturns /\ event'.outcome = "exception")
          => /\ values' = values
             /\ native_value'[event'.sensor]
                   \in {native_value[event'.sensor], values[event'.sensor]}]_vars

\* the setup has raised PlatformNotReady and there is no sensor
SetupRaisedPlatformNotReady ==
    /\ event.op = "setup" /\ event.outcome = "exception"
    /\ event.raises
    /\ platform = "setup"
    /\ \A k \in SensorTypes : pc[k] = "new"

InFlight == {k \in SensorTypes : pc[k] = "awaiting"}

\* the operation before this one was a poll that failed
FailedPoll == event.op = "update" /\ event.polled /\ ~event.is_fresh

\* C14: the get_values call that follows a failed poll, no time having passed
\* since the attempt, sends no request.
RetryWaitsSixtySeconds ==
    [][(FailedPoll /\ GetValuesCalled) => event'.op # "request"]_vars

----------------------------------------------------------------------------
(* The periodic scheduler: the host calls async_update of every sensor once  *)
(* per period, each sensor at its own phase, and the device answers every    *)
(* request with a page that parses.  Time is measured from the present: a    *)
(* step of the clock moves _last_updated_at back instead of moving now       *)
(* forward, which leaves the two comparisons of get_values as they are; a    *)
(* timestamp that is stale stays where it is.                                *)

Periods == {40, 60, 80}

\* the sensors the scheduler drives: the energy sensor and the others added
ScheduledSets ==
    {S \in SUBSET SensorTypes : "energy" \in S /\ Cardinality(S) = MaxSensors}

Schedules ==
    UNION {UNION {{[period |-> p, left |-> l] :
                      l \in [S -> {n * timedelta_seconds_20 :
                                     n \in 0..(p \div timedelta_seconds_20 - 1)}]}
                  : S \in ScheduledSets}
           : p \in Periods}

GoodResponses == {resp \in Responses : Outcome[resp] = "ok"}

\* a timestamp seen d seconds later
aged(last, t, d) ==
    IF is_stale(last, t) THEN last
    ELSE last - d

SchedInit ==
    /\ now = Day + Day \div 2
    /\ ticks = 0
    /\ platform = "ready"
    /\ last_updated_at = datetime_min
    /\ values = ZeroValues
    /\ native_value = [k \in SensorTypes |-> None]
    /\ due \in Schedules
    /\ pc = [k \in SensorTypes |->
                IF k \in DOMAIN due.left THEN "idle" ELSE "new"]
    /\ event = Quiet("init", "none")
    /\ zeroed_tonight = FALSE
    /\ html = <<>>

\* the period of a sensor has run out: the host is about to call its update
sched_due(sensor) ==
    /\ event.op # "due"
    /\ sensor \in DOMAIN due.left
    /\ due.left[sensor] = 0
    /\ due' = [due EXCEPT !.left[sensor] = due.period]
    /\ event' = Quiet("due", sensor)
    /\ UNCHANGED <<now, ticks, platform, last_updated_at, values, native_value,
                   pc, zeroed_tonight, html>>

sched_update(sensor) ==
    /\ event.op = "due" /\ event.sensor = sensor
    /\ async_update(sensor)

\* the request returns; it returns before the clock moves on (its timeout is
\* 3 seconds)
sched_resume(sensor, resp) ==
    /\ event.op # "due"
    /\ async_update_resume(sensor, resp)

sched_tick(d) ==
    /\ event.op # "due"
    /\ \A k \in DOMAIN due.left : due.left[k] >= d /\ pc[k] # "awaiting"
    /\ due' = [due EXCEPT !.left = [k \in DOMAIN due.left |-> due.left[k] - d]]
    /\ last_updated_at' = aged(last_updated_at, now, d)
    /\ event' = Quiet("tick", "none")
    /\ UNCHANGED <<now, ticks, platform, values, native_value, pc,
                   zeroed_tonight, html>>

SchedNext ==
    \/ \E sensor \in SensorTypes : sched_due(sensor)
    \/ \E sensor \in SensorTypes : sched_update(sensor)
    \/ \E sensor \in SensorTypes, resp \in GoodResponses :
          sched_resume(sensor, resp)
    \/ \E d \in Steps : sched_tick(d)

\* The host fires every due update, the event loop runs it and every request
\* ends within its timeout: some step is always taken.
SchedSpec == SchedInit /\ [][SchedNext]_vars /\ WF_vars(SchedNext)

\* C15: with every sensor updated once per period and every poll succeeding,
\* the energy sensor eventually shows a polled energy value.
EnergyEventuallyPolled == <>(native_value["energy"] \in {12, 21})

----------------------------------------------------------------------------
(* The decimal comma, concurrent updates and the reads *)

\* a literal up to its first comma
BeforeComma(lit) ==
    LET commas == {i \in 1..Len(lit) : lit[i] = ","}
    IN  IF commas = {} THEN lit
        ELSE SubSeq(lit, 1, (CHOOSE i \in commas : \A j \in commas : i <= j) - 1)

\* C16: a page that parses gives, for every key, the integer of the captured
\* literal with the part after its decimal comma dropped (12,5 gives 12).
DecimalCommaTruncates ==
    (PageParsed /\ event.outcome = "ok")
       => \A key \in SensorTypes :
             event.new_values[key]
                = Number(BeforeComma(Captured(html, key)), 0)

\* C17: at most one request to the device is in flight at any time.
AtMostOneRequestInFlight == Cardinality(InFlight) <= 1

\* C18: the stored measurements are the defaults or the four values of one
\* response; they change only in the step of a successful poll, which is also
\* the step that sets _last_updated_at, and _last_updated_at changes only in a
\* step that stores the four values of the response.
SnapshotConsistent ==
    [][/\ values' \in {ZeroValues} \cup ReadingValues
       /\ values' # values
          => /\ PollReturns /\ event'.outcome = "ok"
             /\ values' = event'.new_values
             /\ last_updated_at' = now
       /\ last_updated_at' # last_updated_at
          => /\ PollReturns /\ event'.outcome = "ok"
             /\ values' = event'.new_values]_vars

\* a response stored whole while the request of another sensor is in flight
SnapshotStoredWhileOtherInFlight ==
    /\ event.op = "update" /\ event.polled /\ event.outcome = "ok"
    /\ InFlight # {}
    /\ values \in ReadingValues
    /\ values = event.new_values
    /\ last_updated_at = now

\* C19: a read of the energy sensor from 23:00:00 to 03:00:00, both included,
\* stores 0 and returns 0 whatever the cache holds; any other read returns
\* the stored value; no read changes anything else.
DeadBandRead ==
    [][event'.op = "read"
          => /\ UNCHANGED <<values, last_updated_at, pc, now>>
             /\ \A k \in SensorTypes \ {event'.sensor} :
                   native_value'[k] = native_value[k]
             /\ IF event'.sensor = "energy" /\ InDeadBand(now)
                THEN native_value'["energy"] = 0 /\ event'.value = 0
                ELSE /\ native_value'[event'.sensor]
                          = native_value[event'.sensor]
                     /\ event'.value = native_value[event'.sensor]]_vars

\* the energy sensor read as 0 at 03:00:00 sharp, the cache fresh
EnergyReadZeroAtThreeSharp ==
    /\ event.op = "read" /\ event.sensor = "energy"
    /\ now % 86400 = 3 * 3600
    /\ event.value = 0 /\ native_value["energy"] = 0
    /\ last_updated_at = now
    /\ values["energy"] > 0

====
